---- MODULE Spec2Model ----
(***************************************************************************)
(* Model of tsc-check-files: the launcher (index.ts), its helpers          *)
(* (utils.ts), the argument parser (arg-parser.ts) and the derived         *)
(* configuration builder (config-builder.ts).                              *)
(*                                                                         *)
(* Strings are sequences of lexemes: the separators "/", "." and "="       *)
(* stand alone, every other lexeme is a maximal run of other characters.   *)
(* "src/a.ts" is <<"src", "/", "a", ".", "ts">>.  Splitting at a           *)
(* separator, taking an extension or testing a suffix that begins with a   *)
(* separator gives on lexemes what it gives on characters.                 *)
(***************************************************************************)
EXTENDS Integers, Sequences, FiniteSets, TLC

\* ------------------------------------------------------------------ bounds
MaxArgv == 2
MaxFiles == 2
MaxTime == 2
MaxCalls == 3
MaxParse == 3
MaxDepth == 3

\* ------------------------------------------------------ string primitives
SLASH == "/"
DOT == "."
EQ == "="

EmptyStr == << >>

StartsWith(s, pre) ==
  /\ Len(s) >= Len(pre)
  /\ SubSeq(s, 1, Len(pre)) = pre

EndsWith(s, suf) ==
  /\ Len(s) >= Len(suf)
  /\ SubSeq(s, Len(s) - Len(suf) + 1, Len(s)) = suf

Includes(list, x) == \E i \in 1..Len(list) : list[i] = x

\* the element of a one-element set: Only({e(x) : x \in {v}}) is e(v) with
\* v computed once
Only(S) == CHOOSE x \in S : TRUE

RECURSIVE SplitAt(_, _)
\* String.prototype.split(sep): the pieces between the separators, empty
\* pieces included
SplitAt(s, sep) ==
  IF \A i \in 1..Len(s) : s[i] # sep THEN <<s>>
  ELSE LET i == CHOOSE k \in 1..Len(s) :
                  /\ s[k] = sep
                  /\ \A j \in 1..(k - 1) : s[j] # sep
       IN <<SubSeq(s, 1, i - 1)>> \o SplitAt(SubSeq(s, i + 1, Len(s)), sep)

\* ---------------------------------------------------------- node:path
DotSeg == <<DOT>>
DotDotSeg == <<DOT, DOT>>

\* the non-empty segments of a path
Segments(p) == SelectSeq(SplitAt(p, SLASH), LAMBDA seg : seg # << >>)

RECURSIVE NormalizeSegs(_, _)
\* normalizeString of node:path for an absolute path: "." is dropped, ".."
\* removes the segment before it (and is dropped at the root)
NormalizeSegs(done, rest) ==
  IF rest = << >> THEN done
  ELSE IF Head(rest) = DotSeg THEN NormalizeSegs(done, Tail(rest))
  ELSE IF Head(rest) = DotDotSeg
       THEN NormalizeSegs(IF done = << >> THEN << >>
                          ELSE SubSeq(done, 1, Len(done) - 1), Tail(rest))
  ELSE NormalizeSegs(Append(done, Head(rest)), Tail(rest))

RECURSIVE JoinSegs(_)
JoinSegs(segs) ==
  IF segs = << >> THEN << >>
  ELSE IF Len(segs) = 1 THEN Head(segs)
  ELSE Head(segs) \o <<SLASH>> \o JoinSegs(Tail(segs))

IsAbsolute(p) == p # << >> /\ p[1] = SLASH

AbsFromSegs(segs) == <<SLASH>> \o JoinSegs(segs)

\* path.resolve(base, p) with base an absolute directory
PathResolve(base, p) ==
  IF IsAbsolute(p) THEN AbsFromSegs(NormalizeSegs(<< >>, Segments(p)))
  ELSE AbsFromSegs(NormalizeSegs(<< >>, Segments(base) \o Segments(p)))

\* path.join(dir, name) with dir absolute
PathJoin(dir, name) == AbsFromSegs(NormalizeSegs(<< >>, Segments(dir) \o Segments(name)))

\* path.dirname of a resolved absolute path; the root is its own parent
PathDirname(p) ==
  LET segs == Segments(p)
  IN IF segs = << >> THEN <<SLASH>>
     ELSE AbsFromSegs(SubSeq(segs, 1, Len(segs) - 1))

\* path.extname: from the last "." of the last segment to its end; empty
\* when there is no ".", when the only "." is the first character of the
\* segment, and for the segment ".."
PathExtname(p) ==
  LET segs == Segments(p)
      base == IF segs = << >> THEN << >> ELSE segs[Len(segs)]
      dots == {i \in 1..Len(base) : base[i] = DOT}
  IN IF dots = {} THEN EmptyStr
     ELSE LET last == CHOOSE i \in dots : \A j \in dots : j <= i
          IN IF last = 1 \/ base = DotDotSeg THEN EmptyStr
             ELSE SubSeq(base, last, Len(base))

RECURSIVE CommonLen(_, _)
CommonLen(a, b) ==
  IF a = << >> \/ b = << >> \/ Head(a) # Head(b) THEN 0
  ELSE 1 + CommonLen(Tail(a), Tail(b))

\* path.relative(from, to) of two resolved absolute paths
PathRelative(from, to) ==
  LET f == Segments(from)
      t == Segments(to)
      n == CommonLen(f, t)
      ups == [i \in 1..(Len(f) - n) |-> DotDotSeg]
  IN JoinSegs(ups \o SubSeq(t, n + 1, Len(t)))

\* ------------------------------------------------------------ values
\* JavaScript's undefined and null; no argument token equals either
Undefined == <<"<undefined>">>
Null == <<"<null>">>

\* a ?? b
Coalesce(a, b) == IF a = Undefined \/ a = Null THEN b ELSE a

\* list[i], undefined past the end
At(list, i) == IF i \in 1..Len(list) THEN list[i] ELSE Undefined

EmptyObj == [k \in {} |-> Undefined]

\* { ...a, ...b }: the keys of both, the value of b where both have the key
Spread(a, b) ==
  [k \in DOMAIN a \cup DOMAIN b |-> IF k \in DOMAIN b THEN b[k] ELSE a[k]]

\* delete obj[key]
DeleteKey(obj, key) == [k \in DOMAIN obj \ {key} |-> obj[k]]

\* obj[key] = value
SetKey(obj, key, value) ==
  [k \in DOMAIN obj \cup {key} |-> IF k = key THEN value ELSE obj[k]]

\* ------------------------------------------------------------ src/types.ts
TSC == <<"tsc">>
VUE_TSC == <<"vue-tsc">>
GLINT == <<"glint">>
Tool == {GLINT, VUE_TSC, TSC}

EXT_TS == <<DOT, "ts">>
EXT_TSX == <<DOT, "tsx">>
EXT_GTS == <<DOT, "gts">>
EXT_GJS == <<DOT, "gjs">>
EXT_VUE == <<DOT, "vue">>

FILE_EXTS == <<EXT_TS, EXT_TSX, EXT_GTS, EXT_VUE>>

\* ------------------------------------------------------------ file system
\* A disk is a function from the absolute paths that exist to their
\* content, a record [kind, val]: kind "json" with the JSON value the text
\* denotes, kind "garbage" for text that does not parse, kind "source" for
\* a file to be checked, kind "shim" for the module declaration
PACKAGE_JSON == <<"package", DOT, "json">>
TSCONFIG_JSON == <<"tsconfig", DOT, "json">>

JsonFile(v) == [kind |-> "json", val |-> v]
GarbageFile == [kind |-> "garbage", val |-> EmptyObj]
SourceFile == [kind |-> "source", val |-> EmptyObj]
ShimFile == [kind |-> "shim", val |-> EmptyObj]
BinFile == [kind |-> "bin", val |-> EmptyObj]

\* fs.existsSync
ExistsSync(d, p) == p \in DOMAIN d

\* fs.writeFileSync: creates or replaces the file
WriteFileSync(d, p, content) ==
  [q \in DOMAIN d \cup {p} |-> IF q = p THEN content ELSE d[q]]

\* what a write can do: the file is written; the write is refused (EACCES,
\* EROFS) and nothing changes; the file is opened and the write then fails
\* (ENOSPC), which leaves a truncated file
WRITTEN == "written"
REFUSED == "refused"
PARTIAL == "partial"
WriteOutcomes == {WRITTEN, REFUSED, PARTIAL}

\* fs.writeFileSync with its outcome: the disk it leaves and whether it threw
TryWriteFileSync(d, p, content, outcome) ==
  [disk |-> CASE outcome = WRITTEN -> WriteFileSync(d, p, content)
              [] outcome = PARTIAL -> WriteFileSync(d, p, GarbageFile)
              [] OTHER -> d,
   threw |-> outcome # WRITTEN]

\* fs.unlinkSync: removes the file, throws when it does not exist
UnlinkSync(d, p) ==
  IF p \in DOMAIN d
  THEN [disk |-> [q \in DOMAIN d \ {p} |-> d[q]], threw |-> FALSE]
  ELSE [disk |-> d, threw |-> TRUE]

\* JSON.parse(fs.readFileSync(p, 'utf8')): throws when the file is missing
\* or its text is not JSON
ReadJson(d, p) ==
  IF p \in DOMAIN d /\ d[p].kind = "json"
  THEN [threw |-> FALSE, val |-> d[p].val]
  ELSE [threw |-> TRUE, val |-> EmptyObj]

\* ------------------------------------------------------------ utils.ts
\* isFileArg without the existence test
isFileArg_NoExists(arg, wd, d) ==
  Includes(FILE_EXTS, PathExtname(PathResolve(wd, arg)))

isFileArg(arg, wd, d) ==
  \E resolvedPath \in {PathResolve(wd, arg)} :
    \E ext \in {PathExtname(resolvedPath)} :
      Includes(FILE_EXTS, ext) /\ ExistsSync(d, resolvedPath)

RECURSIVE findNearestPackageJson(_, _)
findNearestPackageJson(current, d) ==
  LET candidate == PathJoin(current, PACKAGE_JSON)
      parent == PathDirname(current)
  IN IF ExistsSync(d, candidate) THEN candidate
     ELSE IF parent = current THEN Null
     ELSE findNearestPackageJson(parent, d)

\* a lookup that tests the start directory only
findNearestPackageJsonOf_StartOnly(startDir, wd, d) ==
  LET candidate == PathJoin(PathResolve(wd, startDir), PACKAGE_JSON)
  IN IF ExistsSync(d, candidate) THEN candidate ELSE Null

\* findNearestPackageJson(startDir) in the working directory wd: the walk
\* starts at path.resolve(startDir)
findNearestPackageJsonOf(startDir, wd, d) ==
  findNearestPackageJson(PathResolve(wd, startDir), d)

DEP_GLINT == "@glint/core"
DEP_VUE_TSC == "vue-tsc"
DEP_VUE == "vue"

\* allDeps?.[name] as a condition: the entry exists and its version string
\* is not empty
Truthy(obj, name) == name \in DOMAIN obj /\ obj[name] # ""

\* the rules of pickTool that read the manifest; a manifest that cannot be
\* read or parsed selects nothing
pickToolFromManifest(pkgJsonPath, d) ==
  LET r == ReadJson(d, pkgJsonPath)
      pkg == r.val
      allDeps == Spread(IF "dependencies" \in DOMAIN pkg
                        THEN pkg["dependencies"] ELSE EmptyObj,
                        IF "devDependencies" \in DOMAIN pkg
                        THEN pkg["devDependencies"] ELSE EmptyObj)
  IN IF r.threw THEN TSC
     ELSE IF Truthy(allDeps, DEP_GLINT) THEN GLINT
     ELSE IF Truthy(allDeps, DEP_VUE_TSC) \/ Truthy(allDeps, DEP_VUE) THEN VUE_TSC
     ELSE TSC

\* pickTool with the two extension rules in the other order
pickTool_GtsFirst(fileArgs, pkgJsonPath, override, d) ==
  IF override # Undefined THEN override
  ELSE IF \E i \in 1..Len(fileArgs) :
            EndsWith(fileArgs[i], EXT_GTS) \/ EndsWith(fileArgs[i], EXT_GJS)
       THEN GLINT
  ELSE IF \E i \in 1..Len(fileArgs) : EndsWith(fileArgs[i], EXT_VUE) THEN VUE_TSC
  ELSE pickToolFromManifest(pkgJsonPath, d)

pickTool(fileArgs, pkgJsonPath, override, d) ==
  IF override # Undefined THEN override
  ELSE IF \E i \in 1..Len(fileArgs) : EndsWith(fileArgs[i], EXT_VUE) THEN VUE_TSC
  ELSE IF \E i \in 1..Len(fileArgs) :
            EndsWith(fileArgs[i], EXT_GTS) \/ EndsWith(fileArgs[i], EXT_GJS)
       THEN GLINT
  ELSE pickToolFromManifest(pkgJsonPath, d)

NODE_MODULES == <<"node_modules">>
LocalBinDir == <<"node_modules", SLASH, DOT, "bin">>
PKG_TYPESCRIPT == <<"typescript">>
PKG_VUE_TSC == <<"vue-tsc">>
PKG_GLINT == <<"@glint", SLASH, "core">>

\* process.execPath
execPath == <<SLASH, "usr", SLASH, "bin", SLASH, "node">>

RECURSIVE resolveFromSilent(_, _, _)
\* resolveFrom.silent(fromDir, moduleId): the file in the node_modules
\* folder of fromDir or of its nearest ancestor that has it, else undefined
resolveFromSilent(fromDir, moduleId, d) ==
  LET candidate == PathJoin(fromDir, NODE_MODULES \o <<SLASH>> \o moduleId)
      parent == PathDirname(fromDir)
  IN IF ExistsSync(d, candidate) THEN candidate
     ELSE IF parent = fromDir THEN Undefined
     ELSE resolveFromSilent(parent, moduleId, d)

\* the bin field of a package manifest: one path, or an object whose
\* entries are kept in the order of the text
BinString(binPath) == [form |-> "string", path |-> binPath, entries |-> << >>]
BinMap(entries) == [form |-> "map", path |-> EmptyStr, entries |-> entries]
BinEntry(name, binPath) == [name |-> name, path |-> binPath]

\* resolvePackageBin(pkgName, binName) in the working directory wd
resolvePackageBin(pkgName, binName, wd, d) ==
  LET pkgJsonPath == resolveFromSilent(wd, pkgName \o <<SLASH>> \o PACKAGE_JSON, d)
      pkgRoot == PathDirname(pkgJsonPath)
      pkgJson == ReadJson(d, pkgJsonPath)
      binField == pkgJson.val["bin"]
      named == SelectSeq(binField.entries,
                         LAMBDA e : e.name = binName /\ e.path # EmptyStr)
      firstBin == binField.entries[1].path
  IN IF pkgJsonPath = Undefined THEN Null
     ELSE IF pkgJson.threw THEN Null
     ELSE IF "bin" \notin DOMAIN pkgJson.val THEN Null
     ELSE IF binField.form = "string"
     THEN IF binField.path = EmptyStr THEN Null
          ELSE PathResolve(pkgRoot, binField.path)
     ELSE IF named # << >> THEN PathResolve(pkgRoot, named[1].path)
     ELSE IF binField.entries = << >> \/ firstBin = EmptyStr THEN Null
     ELSE PathResolve(pkgRoot, firstBin)

\* /\.(c?m)?jsx?$/ on a path
IsScript(binPath) ==
  /\ Len(binPath) >= 2
  /\ binPath[Len(binPath) - 1] = DOT
  /\ binPath[Len(binPath)] \in {"js", "jsx", "mjs", "mjsx", "cmjs", "cmjsx"}

toolConfig(cmd) ==
  CASE cmd = VUE_TSC -> [pkgName |-> PKG_VUE_TSC, binName |-> VUE_TSC]
    [] cmd = GLINT -> [pkgName |-> PKG_GLINT, binName |-> GLINT]
    [] OTHER -> [pkgName |-> PKG_TYPESCRIPT, binName |-> TSC]

CommandConfig(command, args) == [command |-> command, args |-> args]

\* preferLocalBin(cmd) in the working directory wd, on a platform other
\* than win32; the function has one parameter, a second argument of a
\* caller is dropped
preferLocalBin(cmd, wd, d) ==
  LET localBinPath == PathJoin(wd, LocalBinDir \o <<SLASH>> \o cmd)
      config == toolConfig(cmd)
  IN IF ExistsSync(d, localBinPath) THEN CommandConfig(localBinPath, << >>)
     ELSE Only({IF resolvedBin # Null
                THEN IF IsScript(resolvedBin)
                     THEN CommandConfig(execPath, <<resolvedBin>>)
                     ELSE CommandConfig(resolvedBin, << >>)
                ELSE CommandConfig(cmd, << >>) :
                  resolvedBin \in {resolvePackageBin(config.pkgName,
                                                     config.binName, wd, d)}})

\* the suggestion naming the tool instead of its package
getInstallSuggestion_ToolName(t) == t

getInstallSuggestion(t) ==
  CASE t = TSC -> PKG_TYPESCRIPT
    [] t = VUE_TSC -> PKG_VUE_TSC
    [] t = GLINT -> PKG_GLINT

\* ------------------------------------------------------ config-builder.ts
\* JSON values of a configuration: booleans and strings are lexeme strings
JTrue == <<"true">>
JFalse == <<"false">>

\* the files parameter of buildTempTsconfig: null or a list of paths
NullFiles == [isNull |-> TRUE, list |-> << >>]
FileList(l) == [isNull |-> FALSE, list |-> l]

SHIM_NAME == <<"tsconfig", DOT, "tsc-runner", DOT, "shims", DOT, "d", DOT, "ts">>
TempName(timestamp) ==
  <<"tsconfig", DOT, "tsc-runner", DOT, ToString(timestamp), DOT, "json">>

RECURSIVE findConfigFile(_, _)
\* ts.findConfigFile(searchPath, fileExists, 'tsconfig.json'): the nearest
\* tsconfig.json in searchPath or one of its ancestors
findConfigFile(searchPath, d) ==
  LET candidate == PathJoin(searchPath, TSCONFIG_JSON)
      parent == PathDirname(searchPath)
  IN IF ExistsSync(d, candidate) THEN candidate
     ELSE IF parent = searchPath THEN Undefined
     ELSE findConfigFile(parent, d)

\* ts.readConfigFile: the parsed configuration, or an error
readConfigFile(d, configFileName) ==
  LET r == ReadJson(d, configFileName)
  IN [error |-> r.threw, config |-> r.val]

\* the overrides without the one that unsets tsBuildInfoFile
ForcedOverrides_KeepBuildInfo ==
  [k \in {"noEmit", "outDir", "rootDir", "composite", "incremental"} |->
     CASE k = "noEmit" -> JTrue
       [] k = "composite" -> JFalse
       [] k = "incremental" -> JFalse
       [] OTHER -> Undefined]

ForcedOverrides ==
  [k \in {"noEmit", "outDir", "rootDir", "composite", "incremental", "tsBuildInfoFile"} |->
     CASE k = "noEmit" -> JTrue
       [] k = "composite" -> JFalse
       [] k = "incremental" -> JFalse
       [] OTHER -> Undefined]

\* createTempConfig listing the files as given, not relative to configDir
createTempConfig_AsGiven(originalConfig, files, configDir, shimPath, wd) ==
  LET compilerOptions ==
        Spread(IF "compilerOptions" \in DOMAIN originalConfig
               THEN originalConfig["compilerOptions"] ELSE EmptyObj,
               ForcedOverrides)
      tempConfig == SetKey(originalConfig, "compilerOptions", compilerOptions)
      relativeShim == PathRelative(configDir, shimPath)
  IN IF ~files.isNull /\ Len(files.list) > 0
     THEN DeleteKey(DeleteKey(SetKey(tempConfig, "files",
                                     files.list \o <<relativeShim>>),
                              "include"), "exclude")
     ELSE tempConfig

\* createTempConfig starting from an empty object instead of a copy
createTempConfig_Fresh(originalConfig, files, configDir, shimPath, wd) ==
  LET compilerOptions ==
        Spread(IF "compilerOptions" \in DOMAIN originalConfig
               THEN originalConfig["compilerOptions"] ELSE EmptyObj,
               ForcedOverrides)
      tempConfig == SetKey(EmptyObj, "compilerOptions", compilerOptions)
      relativeFiles ==
        [i \in 1..Len(files.list) |->
           PathRelative(configDir, PathResolve(wd, files.list[i]))]
      relativeShim == PathRelative(configDir, shimPath)
  IN IF ~files.isNull /\ Len(files.list) > 0
     THEN SetKey(tempConfig, "files", relativeFiles \o <<relativeShim>>)
     ELSE tempConfig

\* createTempConfig testing only that files is not null
createTempConfig_EmptyList(originalConfig, files, configDir, shimPath, wd) ==
  LET compilerOptions ==
        Spread(IF "compilerOptions" \in DOMAIN originalConfig
               THEN originalConfig["compilerOptions"] ELSE EmptyObj,
               ForcedOverrides)
      tempConfig == SetKey(originalConfig, "compilerOptions", compilerOptions)
      relativeFiles ==
        [i \in 1..Len(files.list) |->
           PathRelative(configDir, PathResolve(wd, files.list[i]))]
      relativeShim == PathRelative(configDir, shimPath)
  IN IF ~files.isNull
     THEN DeleteKey(DeleteKey(SetKey(tempConfig, "files",
                                     relativeFiles \o <<relativeShim>>),
                              "include"), "exclude")
     ELSE tempConfig

createTempConfig(originalConfig, files, configDir, shimPath, wd) ==
  LET compilerOptions ==
        Spread(IF "compilerOptions" \in DOMAIN originalConfig
               THEN originalConfig["compilerOptions"] ELSE EmptyObj,
               ForcedOverrides)
      tempConfig == SetKey(originalConfig, "compilerOptions", compilerOptions)
      relativeFiles ==
        [i \in 1..Len(files.list) |->
           PathRelative(configDir, PathResolve(wd, files.list[i]))]
      relativeShim == PathRelative(configDir, shimPath)
  IN IF ~files.isNull /\ Len(files.list) > 0
     THEN DeleteKey(DeleteKey(SetKey(tempConfig, "files",
                                     relativeFiles \o <<relativeShim>>),
                              "include"), "exclude")
     ELSE tempConfig

\* JSON.stringify of an object: a key whose value is undefined is left out
DropUndefined(obj) == [k \in {j \in DOMAIN obj : obj[j] # Undefined} |-> obj[k]]

\* JSON.stringify(tempConfig, null, 2), as the JSON value the text denotes
JSONStringify(cfg) ==
  [k \in DOMAIN cfg |->
     IF k = "compilerOptions" THEN DropUndefined(cfg[k]) ELSE cfg[k]]

\* buildTempTsconfig up to the computation of configDir: "throw" when no
\* configuration is found, "exit1" when it cannot be read
BuildLocate(wd, d) ==
  LET configFileName == findConfigFile(wd, d)
      configReadResult == readConfigFile(d, configFileName)
  IN IF configFileName = Undefined
     THEN [outcome |-> "throw", configDir |-> wd, config |-> EmptyObj]
     ELSE IF configReadResult.error
     THEN [outcome |-> "exit1", configDir |-> wd, config |-> EmptyObj]
     ELSE [outcome |-> "ok", configDir |-> PathDirname(configFileName),
           config |-> configReadResult.config]

\* the shim placed over the real configuration
ShimPath_OverConfig(configDir) == PathJoin(configDir, TSCONFIG_JSON)

ShimPath(configDir) == PathJoin(configDir, SHIM_NAME)
\* the derived configuration placed in a fixed directory instead of configDir
TempPath_InTmp(configDir, timestamp) == PathJoin(<<SLASH, "tmp">>, TempName(timestamp))

TempPath(configDir, timestamp) == PathJoin(configDir, TempName(timestamp))

\* fs.writeFileSync(shimPath, shimContent)
BuildWriteShim(d, configDir) == WriteFileSync(d, ShimPath(configDir), ShimFile)

\* try { fs.writeFileSync(shimPath, shimContent) } catch {}: a failure is
\* swallowed
BuildTryWriteShim(d, configDir, outcome) ==
  TryWriteFileSync(d, ShimPath(configDir), ShimFile, outcome).disk

\* createTempConfig and fs.writeFileSync(tempPath, JSON.stringify(...))
BuildWriteTemp(d, loc, files, wd, timestamp) ==
  WriteFileSync(d, TempPath(loc.configDir, timestamp),
                JsonFile(JSONStringify(
                  createTempConfig(loc.config, files, loc.configDir,
                                   ShimPath(loc.configDir), wd))))

\* the same write with its outcome; it is in no try block, so a failure
\* rejects the promise of buildTempTsconfig
BuildTryWriteTemp(d, loc, files, wd, timestamp, outcome) ==
  IF outcome = WRITTEN
  THEN [disk |-> BuildWriteTemp(d, loc, files, wd, timestamp), threw |-> FALSE]
  ELSE TryWriteFileSync(d, TempPath(loc.configDir, timestamp), GarbageFile, outcome)

\* the value buildTempTsconfig returns; cleanup is the pair of paths its
\* closure holds
TempTsconfig(loc, timestamp) ==
  [tempPath |-> TempPath(loc.configDir, timestamp),
   configDir |-> loc.configDir,
   shimPath |-> ShimPath(loc.configDir)]

\* one try { if (fs.existsSync(p)) fs.unlinkSync(p) } catch {} block
TryUnlinkIfExists(d, p) ==
  LET r == IF ExistsSync(d, p) THEN UnlinkSync(d, p)
           ELSE [disk |-> d, threw |-> FALSE]
  IN [disk |-> r.disk, threw |-> FALSE]

\* cleanup unlinking both files with neither the existence test nor the try
cleanup_Unguarded(d, h) ==
  LET r1 == UnlinkSync(d, h.tempPath)
      r2 == IF r1.threw THEN r1 ELSE UnlinkSync(r1.disk, h.shimPath)
  IN [disk |-> r2.disk, threw |-> r2.threw]

\* the cleanup closure: the disk it leaves and whether it threw
cleanup(d, h) ==
  LET r1 == TryUnlinkIfExists(d, h.tempPath)
      r2 == TryUnlinkIfExists(r1.disk, h.shimPath)
  IN [disk |-> r2.disk, threw |-> r1.threw \/ r2.threw]

\* ------------------------------------------------------------ arg-parser.ts
OPT_PROJECT == <<"--project">>
OPT_P == <<"-p">>
OPT_PROJECT_EQ == <<"--project", EQ>>
OPT_TOOL == <<"--tool">>
OPT_TOOL_EQ == <<"--tool", EQ>>

\* Array.prototype.findIndex, 1-based, given the set of the indices whose
\* element satisfies the callback; 0 when there is none
FindIndex(hits) ==
  IF hits = {} THEN 0
  ELSE CHOOSE i \in hits : \A j \in hits : i <= j

\* a splice that removes one element whatever the count
Splice_One(list, idx, count) ==
  SubSeq(list, 1, idx - 1) \o SubSeq(list, idx + 1, Len(list))

\* list.splice(idx, count)
Splice(list, idx, count) ==
  SubSeq(list, 1, idx - 1) \o SubSeq(list, idx + count, Len(list))

validTools == <<TSC, VUE_TSC, GLINT>>

\* a validateToolValue that accepts every value
validateToolValue_NoExit(value) == [exit |-> FALSE, value |-> value]

\* validateToolValue: exits with status 1 unless the value is a tool name
validateToolValue(value) ==
  [exit |-> ~Includes(validTools, value), value |-> value]

\* the loop over passthrough that finds the explicit project option
explicitProjectOf(passthrough) ==
  LET isProj(arg) == arg = OPT_PROJECT \/ arg = OPT_P \/ StartsWith(arg, OPT_PROJECT_EQ)
      i == FindIndex({k \in 1..Len(passthrough) : isProj(passthrough[k])})
  IN IF i = 0 THEN Null
     ELSE IF passthrough[i] = OPT_PROJECT \/ passthrough[i] = OPT_P
     THEN Coalesce(At(passthrough, i + 1), Null)
     ELSE Coalesce(At(SplitAt(passthrough[i], EQ), 2), Null)

\* a passthrough that keeps the file arguments
passthroughOf_All(fileArgs, args) == args

\* argv.filter(arg => !fileArgs.includes(arg))
passthroughOf(fileArgs, args) == SelectSeq(args, LAMBDA a : ~Includes(fileArgs, a))

\* parseArgs after the file arguments are known: exit is TRUE when
\* validateToolValue ended the process
parseFlags(fileArgs, args) ==
  LET pass0 == passthroughOf(fileArgs, args)
      explicitProject == explicitProjectOf(pass0)
      toolEqIndex == FindIndex({k \in 1..Len(pass0) :
                                  StartsWith(pass0[k], OPT_TOOL_EQ)})
      v1 == IF toolEqIndex # 0
            THEN validateToolValue(At(SplitAt(pass0[toolEqIndex], EQ), 2))
            ELSE [exit |-> FALSE, value |-> Undefined]
      pass1 == IF toolEqIndex # 0 THEN Splice(pass0, toolEqIndex, 1) ELSE pass0
      toolIndex == FindIndex({k \in 1..Len(pass1) : pass1[k] = OPT_TOOL})
      v2 == IF toolIndex # 0
            THEN validateToolValue(At(pass1, toolIndex + 1))
            ELSE v1
      pass2 == IF toolIndex # 0 THEN Splice(pass1, toolIndex, 2) ELSE pass1
  IN [exit |-> v1.exit \/ v2.exit,
      fileArgs |-> fileArgs,
      passthrough |-> pass2,
      explicitProject |-> explicitProject,
      toolOverride |-> v2.value]

parseArgs(args, wd, d) ==
  Only({parseFlags(fileArgs, args) :
          fileArgs \in {SelectSeq(args, LAMBDA a : isFileArg(a, wd, d))}})

\* ------------------------------------------------------------ the world
DirP == <<SLASH, "p">>
DirPS == <<SLASH, "p", SLASH, "s">>

FileA == <<SLASH, "p", SLASH, "a", DOT, "ts">>
FileB == <<SLASH, "p", SLASH, "s", SLASH, "b", DOT, "vue">>
FileC == <<SLASH, "p", SLASH, "s", SLASH, "c", DOT, "gts">>
FileD == <<SLASH, "p", SLASH, "d", DOT, "js">>
FileE == <<SLASH, "p", SLASH, "e", DOT, "gjs">>
FileX == <<SLASH, "p", SLASH, "s", SLASH, "x", DOT, "tsx">>
SourcePaths == {FileA, FileB, FileC, FileD, FileE, FileX}

PkgPath == PathJoin(DirP, PACKAGE_JSON)
CfgPath == PathJoin(DirP, TSCONFIG_JSON)
\* the configuration of a sub-project of a monorepo
SubCfgPath == PathJoin(DirPS, TSCONFIG_JSON)

\* argument tokens
TokA == <<"a", DOT, "ts">>
TokUpA == <<DOT, DOT, SLASH, "a", DOT, "ts">>
TokB == <<"s", SLASH, "b", DOT, "vue">>
TokC == FileC
TokD == <<"d", DOT, "js">>
TokE == <<"e", DOT, "gjs">>
TokX == <<"x", DOT, "tsx">>
TokN == <<"n", DOT, "ts">>
TokDotTs == <<DOT, "ts">>
TokPretty == <<"--pretty">>
TokToolEqGlint == <<"--tool", EQ, "glint">>
TokToolEqBad == <<"--tool", EQ, "bad">>
TokVueTsc == VUE_TSC
TokProjEq == <<"--project", EQ, "t", DOT, "json">>
TokToolEqTsc == <<"--tool", EQ, "tsc">>
TokToolEqVueTsc == <<"--tool", EQ, "vue-tsc">>
TokProjEqTwo == <<"--project", EQ, "a", EQ, "b", SLASH, "t", DOT, "json">>
TokCfg == <<"t", DOT, "json">>

\* manifests: the dependency sections of package.json
Deps(names) == [n \in names |-> "1.0.0"]
Manifest(deps, devDeps) ==
  JsonFile([k \in {"dependencies", "devDependencies"} |->
              IF k = "dependencies" THEN Deps(deps) ELSE Deps(devDeps)])

\* real configurations
OptTarget == <<"ES2020">>
OptOutDir == <<"dist">>
PatSrc == <<"src", SLASH, "**", SLASH, "*">>
PatTest == <<"test">>
PatBase == <<DOT, SLASH, "base", DOT, "json">>

FullOptions ==
  [k \in {"target", "strict", "noEmit", "outDir", "rootDir", "composite",
          "incremental", "tsBuildInfoFile"} |->
     CASE k = "target" -> OptTarget
       [] k = "strict" -> JTrue
       [] k = "noEmit" -> JFalse
       [] k = "outDir" -> OptOutDir
       [] k = "rootDir" -> <<"src">>
       [] k = "composite" -> JTrue
       [] k = "incremental" -> JTrue
       [] OTHER -> <<"build", DOT, "tsbuildinfo">>]

FullConfig ==
  [k \in {"compilerOptions", "include", "exclude", "files", "extends",
          "references"} |->
     CASE k = "compilerOptions" -> FullOptions
       [] k = "include" -> <<PatSrc>>
       [] k = "exclude" -> <<PatTest>>
       [] k = "files" -> <<<<"main", DOT, "ts">>>>
       [] k = "references" -> <<<<DOT, DOT, SLASH, "lib">>>>
       [] OTHER -> <<PatBase>>]

Restrict(obj, keys) == [k \in DOMAIN obj \cap keys |-> obj[k]]

\* a real configuration with the given top-level keys and compiler options
ConfigWith(topKeys, optKeys) ==
  LET top == Restrict(FullConfig, topKeys)
  IN IF "compilerOptions" \in topKeys
     THEN SetKey(top, "compilerOptions", Restrict(FullOptions, optKeys))
     ELSE top

SourcesOn(paths) == [q \in paths |-> SourceFile]

\* the union of two disks with disjoint domains
Merge(d1, d2) == [q \in DOMAIN d1 \cup DOMAIN d2 |->
                    IF q \in DOMAIN d1 THEN d1[q] ELSE d2[q]]

OnePath(q, content) == [r \in {q} |-> content]
NoFiles == [q \in {} |-> SourceFile]

\* ------------------------------------------------------------ state
VARIABLES
  argv,        \* process.argv.slice(2)
  cwd,         \* process.cwd()
  disk,        \* the file system
  now,         \* the value Date.now() returns
  pc,          \* where the launcher is
  parsed,      \* the result of parseArgs
  tool,        \* the result of pickTool
  loc,         \* buildTempTsconfig: located configuration
  cleanupFn,   \* main's cleanup variable; NoHandle stands for null
  configDir,   \* main's configDir
  finalArgs,   \* main's finalArgs
  handlers,    \* SIGINT and SIGTERM listeners are registered
  child,       \* the child process
  childCode,   \* the code the child's exit event carried; NoCode is null
  sigReceived, \* the signal delivered to the launcher, "none" before
  exitCode,    \* the launcher's exit status
  exitVia,     \* what ended the launcher
  bin,         \* the command and argument prefix preferLocalBin returned
  childErr,    \* the error the child's error event carried
  diagnostic,  \* the last message written with console.error
  call,        \* the last direct call of an exported function
  invocations  \* the launchers that run at the same time on one disk

vars == <<argv, cwd, disk, now, pc, parsed, tool, loc, cleanupFn, configDir,
          finalArgs, handlers, child, childCode, sigReceived, exitCode, exitVia,
          bin, childErr, diagnostic, call, invocations>>

NoHandle == [tempPath |-> EmptyStr, configDir |-> EmptyStr, shimPath |-> EmptyStr]
NoParsed == [exit |-> FALSE, fileArgs |-> << >>, passthrough |-> << >>,
             explicitProject |-> Null, toolOverride |-> Undefined]
NoLoc == [outcome |-> "none", configDir |-> EmptyStr, config |-> EmptyObj]
NoCode == -1
NoBin == [command |-> EmptyStr, args |-> << >>]
NoErr == [code |-> "none", message |-> EmptyStr]
NoDiag == [msg |-> "none", detail |-> EmptyStr]

\* console.error(msg, detail)
Diag(msg, detail) == [msg |-> msg, detail |-> detail]

\* the arguments with the file arguments appended
cmdArgs_WithFiles == bin.args \o finalArgs \o parsed.fileArgs

\* the arguments main passes to spawn
cmdArgs == bin.args \o finalArgs
\* no launcher beside the one the other variables describe
NoInvocations == << >>

NoCall == [op |-> "none", arg |-> EmptyStr, files |-> NullFiles,
           override |-> Undefined, ret |-> EmptyStr, outcome |-> "none",
           handle |-> NoHandle, threw |-> FALSE, count |-> 0]

\* ------------------------------------------------------------ a run
SeqsUpTo(S, n) == UNION {[1..k -> S] : k \in 0..n}

MainTokens == {TokA, TokB, TokC, TokE, TokN, TokPretty, TokToolEqGlint,
               TokToolEqBad, TokProjEq, OPT_TOOL, TokVueTsc, OPT_P}

MainManifests == {NoFiles, OnePath(PkgPath, Manifest({DEP_VUE}, {}))}

MainConfigs == {NoFiles, OnePath(CfgPath, GarbageFile),
                OnePath(CfgPath, JsonFile(FullConfig))}

\* what is installed in /p: typescript and vue-tsc with their links in
\* node_modules/.bin; @glint/core is not installed
NodeModulesP == PathJoin(DirP, NODE_MODULES)
Installed ==
  Merge(OnePath(PathJoin(NodeModulesP, <<DOT, "bin", SLASH>> \o TSC), BinFile),
  Merge(OnePath(PathJoin(NodeModulesP, <<DOT, "bin", SLASH>> \o VUE_TSC), BinFile),
  Merge(OnePath(PathJoin(NodeModulesP, PKG_TYPESCRIPT \o <<SLASH>> \o PACKAGE_JSON),
                JsonFile([k \in {"bin"} |->
                  BinMap(<<BinEntry(TSC, <<"bin", SLASH, "tsc">>),
                           BinEntry(<<"tsserver">>, <<"bin", SLASH, "tsserver">>)>>)])),
        OnePath(PathJoin(NodeModulesP, PKG_VUE_TSC \o <<SLASH>> \o PACKAGE_JSON),
                JsonFile([k \in {"bin"} |->
                  BinString(<<DOT, SLASH, "bin", SLASH, "vue-tsc", DOT, "js">>)])))))

MainDisks == {Merge(Merge(SourcesOn(SourcePaths), Installed), Merge(m, c)) :
                m \in MainManifests, c \in MainConfigs}

SIGINT == "SIGINT"
SIGTERM == "SIGTERM"
Signals == {SIGINT, SIGTERM}

\* the status a signal listener of main passes to exit
SignalStatus(sig) == IF sig = SIGINT THEN 130 ELSE 143

\* the codes a child can report: NoCode is null
ChildCodes == {NoCode, 0, 1, 2}

ENOENT == "ENOENT"
EACCES == "EACCES"

\* the errors a failed spawn reports
SpawnErrors == {[code |-> c, message |-> <<"spawn", c>>] : c \in {ENOENT, EACCES}}

\* the texts of the diagnostics, each named by its first words
MSG_UNKNOWN_TOOL == "Unknown --tool value"
MSG_NO_MANIFEST == "Error: No package.json found"
MSG_UNEXPECTED == "Unexpected error:"
MSG_CONFIG_READ == "Error reading tsconfig.json:"
MSG_NOT_INSTALLED == "Failed to execute; pnpm add -D"
MSG_START_FAILED == "Failed to start the underlying tool:"

\* main().catch: console.error('Unexpected error:', error); process.exit(1)
MainCatch(detail, via) ==
  /\ diagnostic' = Diag(MSG_UNEXPECTED, detail)
  /\ pc' = "done"
  /\ exitCode' = 1
  /\ exitVia' = via

Init ==
  /\ argv \in SeqsUpTo(MainTokens, MaxArgv)
  /\ cwd \in {DirP, DirPS}
  /\ disk \in MainDisks
  /\ now \in {1, MaxTime}
  /\ pc = "main"
  /\ parsed = NoParsed
  /\ tool = TSC
  /\ loc = NoLoc
  /\ cleanupFn = NoHandle
  /\ configDir = cwd
  /\ finalArgs = << >>
  /\ handlers = FALSE
  /\ child = "none"
  /\ childCode = NoCode
  /\ sigReceived = "none"
  /\ exitCode = NoCode
  /\ exitVia = "none"
  /\ bin = NoBin
  /\ childErr = NoErr
  /\ diagnostic = NoDiag
  /\ call = NoCall
  /\ invocations = NoInvocations

\* a value used as a condition: null, undefined and "" are false
IsSet(v) == v # Null /\ v # Undefined /\ v # EmptyStr

\* code ?? dflt on exit codes
CodeOr(code, dflt) == IF code = NoCode THEN dflt ELSE code

\* process.exit(code) with no cleanup
ProcessExit(code, via) ==
  /\ pc' = "done"
  /\ exitCode' = code
  /\ exitVia' = via

\* the exit helper without its call of cleanup
Exit_NoCleanup(code, via) ==
  /\ disk' = disk
  /\ ProcessExit(CodeOr(code, 0), via)

\* main's exit helper: cleanup when one is set, then process.exit(code ?? 0)
Exit(code, via) ==
  /\ disk' = IF cleanupFn # NoHandle THEN cleanup(disk, cleanupFn).disk ELSE disk
  /\ ProcessExit(CodeOr(code, 0), via)

\* the exit listener defaulting to 0 instead of 1
childExitStatus_Zero(code) == CodeOr(code, 0)

\* the status the child's exit listener passes to exit: code ?? 1
childExitStatus(code) == CodeOr(code, 1)

\* a derived configuration for every run with file arguments, whatever the
\* project option
shouldCreateTempConfig_IgnoreProject(p) == Len(p.fileArgs) > 0

\* fileArgs.length > 0 && !explicitProject
shouldCreateTempConfig(p) == Len(p.fileArgs) > 0 /\ ~IsSet(p.explicitProject)

\* main up to the await of buildTempTsconfig, or up to the resolver when no
\* derived configuration is made
Main ==
  /\ pc = "main"
  /\ \E p \in {parseArgs(argv, cwd, disk)},
        pkgJsonPath \in {findNearestPackageJson(cwd, disk)} :
     LET create == shouldCreateTempConfig(p)
     IN /\ parsed' = p
        /\ IF p.exit
           THEN /\ diagnostic' = Diag(MSG_UNKNOWN_TOOL, EmptyStr)
                /\ ProcessExit(1, "usage")
                /\ UNCHANGED <<tool, configDir, finalArgs>>
           ELSE IF pkgJsonPath = Null
           THEN /\ diagnostic' = Diag(MSG_NO_MANIFEST, EmptyStr)
                /\ ProcessExit(1, "noManifest")
                /\ UNCHANGED <<tool, configDir, finalArgs>>
           ELSE /\ tool' = pickTool(p.fileArgs, pkgJsonPath, p.toolOverride, disk)
                /\ finalArgs' = p.passthrough
                /\ configDir' = IF ~create /\ IsSet(p.explicitProject)
                                THEN PathDirname(PathResolve(cwd, p.explicitProject))
                                ELSE cwd
                /\ pc' = IF create THEN "build" ELSE "launch"
                /\ UNCHANGED <<exitCode, exitVia, diagnostic>>
  /\ UNCHANGED <<argv, cwd, disk, now, loc, cleanupFn, handlers, child,
                 childCode, sigReceived, bin, childErr, call,
                 invocations>>

\* buildTempTsconfig from its start to the write of the shim file
BuildShim ==
  /\ pc = "build"
  /\ \E l \in {BuildLocate(cwd, disk)} :
        /\ loc' = l
        /\ IF l.outcome = "throw"
           THEN /\ MainCatch(<<"No tsconfig.json found">>, "noConfig")
                /\ UNCHANGED disk
           ELSE IF l.outcome = "exit1"
           THEN /\ diagnostic' = Diag(MSG_CONFIG_READ, EmptyStr)
                /\ ProcessExit(1, "configError")
                /\ UNCHANGED disk
           ELSE /\ \E outcome \in WriteOutcomes :
                     disk' = BuildTryWriteShim(disk, l.configDir, outcome)
                /\ pc' = "temp"
                /\ UNCHANGED <<exitCode, exitVia, diagnostic>>
  /\ UNCHANGED <<argv, cwd, now, parsed, tool, cleanupFn, configDir, finalArgs,
                 handlers, child, childCode, sigReceived, bin, childErr, call,
                 invocations>>

\* buildTempTsconfig from createTempConfig to its return: the derived
\* configuration is written, or the write throws and main().catch ends the
\* process
BuildTemp ==
  /\ pc = "temp"
  /\ \E outcome \in WriteOutcomes :
       \E w \in {BuildTryWriteTemp(disk, loc, FileList(parsed.fileArgs), cwd,
                                   now, outcome)} :
          /\ disk' = w.disk
          /\ IF w.threw
             THEN MainCatch(<<"writeFileSync">>, "writeError")
             ELSE /\ pc' = "launch"
                  /\ UNCHANGED <<exitCode, exitVia, diagnostic>>
  /\ UNCHANGED <<argv, cwd, now, parsed, tool, loc, cleanupFn, configDir,
                 finalArgs, handlers, child, childCode, sigReceived, bin,
                 childErr, call,
                 invocations>>

\* main from the return of buildTempTsconfig to the spawn: the arguments,
\* the cleanup variable, the command (main passes configDir as a second
\* argument, which preferLocalBin does not have), the signal listeners, the
\* child, started with cmdArgs in configDir
Launch ==
  /\ pc = "launch"
  /\ IF loc.outcome = "ok"
     THEN LET tempConfig == TempTsconfig(loc, now)
          IN /\ configDir' = tempConfig.configDir
             /\ finalArgs' = <<IF tool = GLINT THEN OPT_PROJECT ELSE OPT_P,
                               tempConfig.tempPath>> \o parsed.passthrough
             /\ cleanupFn' = tempConfig
     ELSE UNCHANGED <<configDir, finalArgs, cleanupFn>>
  /\ bin' = preferLocalBin(tool, cwd, disk)
  /\ handlers' = TRUE
  /\ child' \in {"running", "failed"}
  /\ pc' = "wait"
  /\ UNCHANGED <<argv, cwd, disk, now, parsed, tool, loc, childCode, sigReceived,
                 exitCode, exitVia, childErr, diagnostic, call,
                 invocations>>

\* child.on('exit')
ChildExit ==
  /\ pc = "wait"
  /\ child = "running"
  /\ \E code \in ChildCodes :
       /\ childCode' = code
       /\ Exit(childExitStatus(code), "childExit")
  /\ child' = "exited"
  /\ UNCHANGED <<argv, cwd, now, parsed, tool, loc, cleanupFn, configDir,
                 finalArgs, handlers, sigReceived, bin, childErr, diagnostic,
                 call, invocations>>

\* an error listener that starts the child again instead of ending the run
SpawnError_Retry ==
  /\ pc = "wait"
  /\ child = "failed"
  /\ \E err \in SpawnErrors : childErr' = err
  /\ child' = "running"
  /\ UNCHANGED <<argv, cwd, disk, now, pc, parsed, tool, loc, cleanupFn,
                 configDir, finalArgs, handlers, childCode, sigReceived,
                 exitCode, exitVia, bin, diagnostic, call,
                 invocations>>

\* child.on('error')
SpawnError ==
  /\ pc = "wait"
  /\ child = "failed"
  /\ \E err \in SpawnErrors :
       /\ childErr' = err
       /\ diagnostic' = IF err.code = ENOENT
                        THEN Diag(MSG_NOT_INSTALLED, getInstallSuggestion(tool))
                        ELSE Diag(MSG_START_FAILED, err.message)
       /\ Exit(1, "spawnError")
  /\ UNCHANGED <<argv, cwd, now, parsed, tool, loc, cleanupFn, configDir,
                 finalArgs, handlers, child, childCode, sigReceived, bin, call,
                 invocations>>

\* a listener that ends the child before it exits
Signal_EndsChild ==
  /\ pc # "done"
  /\ \E sig \in Signals :
       /\ sigReceived' = sig
       /\ IF handlers
          THEN Exit(SignalStatus(sig), "listener")
          ELSE /\ ProcessExit(NoCode, "killed")
               /\ UNCHANGED disk
  /\ child' = IF handlers /\ child = "running" THEN "exited" ELSE child
  /\ UNCHANGED <<argv, cwd, now, parsed, tool, loc, cleanupFn, configDir,
                 finalArgs, handlers, childCode, bin, childErr,
                 diagnostic, call,
                 invocations>>

\* SIGINT or SIGTERM is delivered: the listener of main when it is
\* registered, else the default disposition, which ends the process at once
Signal ==
  /\ pc # "done"
  /\ \E sig \in Signals :
       /\ sigReceived' = sig
       /\ IF handlers
          THEN Exit(SignalStatus(sig), "listener")
          ELSE /\ ProcessExit(NoCode, "killed")
               /\ UNCHANGED disk
  /\ UNCHANGED <<argv, cwd, now, parsed, tool, loc, cleanupFn, configDir,
                 finalArgs, handlers, child, childCode, bin, childErr,
                 diagnostic, call,
                 invocations>>

Next ==
  \/ Main
  \/ BuildShim
  \/ BuildTemp
  \/ Launch
  \/ ChildExit
  \/ SpawnError
  \/ Signal

Spec == Init /\ [][Next]_vars

\* ------------------------------------------------------------ direct calls
\* The exported functions called as the test suite calls them, one call on
\* a fresh fixture: isFileArg, pickTool, or buildTempTsconfig followed by
\* calls of the cleanup it returns.
UnitTokens == {TokA, TokUpA, TokB, TokC, TokD, TokE, TokX, TokN, TokDotTs,
               TokPretty}

PickFiles == {TokA, TokB, TokC, TokE}

BuildFiles == {TokA, TokUpA, TokB, TokC}

DepNames == {DEP_GLINT, DEP_VUE_TSC, DEP_VUE}

UnitManifests ==
  {NoFiles, OnePath(PkgPath, GarbageFile)} \cup
  {OnePath(PkgPath, Manifest(deps, devDeps)) :
     deps \in SUBSET DepNames, devDeps \in SUBSET DepNames}

OptionSets ==
  {{}, DOMAIN FullOptions, {"target", "outDir", "tsBuildInfoFile"},
   {"strict", "noEmit", "rootDir", "composite", "incremental"}}

UnitConfigs ==
  {NoFiles, OnePath(CfgPath, GarbageFile)} \cup
  {OnePath(CfgPath, JsonFile(ConfigWith(top, opts))) :
     top \in SUBSET DOMAIN FullConfig, opts \in OptionSets}

DefaultManifest == OnePath(PkgPath, Manifest({}, {}))
DefaultConfig == OnePath(CfgPath, JsonFile(FullConfig))

\* a monorepo: the sub-project has the only tsconfig.json, the root has none
MonorepoConfig == OnePath(SubCfgPath, JsonFile(ConfigWith({"compilerOptions"}, {"target"})))

\* the disks of the direct calls vary the sources, the manifest or the
\* real configuration
UnitDisks ==
  {Merge(SourcesOn(srcs), Merge(DefaultManifest, DefaultConfig)) :
     srcs \in SUBSET SourcePaths} \cup
  {Merge(SourcesOn(SourcePaths), Merge(m, DefaultConfig)) : m \in UnitManifests} \cup
  {Merge(SourcesOn(SourcePaths), Merge(DefaultManifest, c)) :
     c \in UnitConfigs \cup {MonorepoConfig}}

InitUnit ==
  /\ argv = << >>
  /\ cwd \in {DirP, DirPS}
  /\ disk \in UnitDisks
  /\ now = 1
  /\ pc = "main"
  /\ parsed = NoParsed
  /\ tool = TSC
  /\ loc = NoLoc
  /\ cleanupFn = NoHandle
  /\ configDir = cwd
  /\ finalArgs = << >>
  /\ handlers = FALSE
  /\ child = "none"
  /\ childCode = NoCode
  /\ sigReceived = "none"
  /\ exitCode = NoCode
  /\ exitVia = "none"
  /\ bin = NoBin
  /\ childErr = NoErr
  /\ diagnostic = NoDiag
  /\ call = NoCall
  /\ invocations = NoInvocations

RunVars == <<argv, cwd, now, pc, parsed, tool, loc, cleanupFn, configDir,
             finalArgs, handlers, child, childCode, sigReceived, exitCode,
             exitVia, bin, childErr, diagnostic, invocations>>

Bool(b) == IF b THEN JTrue ELSE JFalse

\* isFileArg(tok)
CallIsFileArg ==
  /\ call = NoCall
  /\ \E tok \in UnitTokens :
       call' = [NoCall EXCEPT !.op = "isFileArg", !.arg = tok,
                              !.ret = Bool(isFileArg(tok, cwd, disk))]
  /\ UNCHANGED <<disk, RunVars>>

\* pickTool(fileArgs, pkgJsonPath, override)
CallPickTool ==
  /\ call = NoCall
  /\ \E fs \in SeqsUpTo(PickFiles, MaxFiles), override \in Tool \cup {Undefined} :
       call' = [NoCall EXCEPT !.op = "pickTool", !.files = FileList(fs),
                              !.override = override,
                              !.ret = pickTool(fs, PkgPath, override, disk)]
  /\ UNCHANGED <<disk, RunVars>>

\* buildTempTsconfig(files), from its first line to its return
CallBuild ==
  /\ call = NoCall
  /\ \E files \in {NullFiles} \cup {FileList(fs) : fs \in SeqsUpTo(BuildFiles, MaxFiles)} :
       \E l \in {BuildLocate(cwd, disk)} :
          IF l.outcome = "ok"
          THEN /\ disk' = BuildWriteTemp(BuildWriteShim(disk, l.configDir),
                                         l, files, cwd, now)
               /\ call' = [NoCall EXCEPT !.op = "build", !.files = files,
                                         !.outcome = "ok",
                                         !.handle = TempTsconfig(l, now)]
          ELSE /\ disk' = disk
               /\ call' = [NoCall EXCEPT !.op = "build", !.files = files,
                                         !.outcome = l.outcome]
  /\ UNCHANGED RunVars

\* result.cleanup()
CallCleanup ==
  /\ call.handle # NoHandle
  /\ call.count < MaxCalls
  /\ LET r == cleanup(disk, call.handle)
     IN /\ disk' = r.disk
        /\ call' = [call EXCEPT !.op = "cleanup", !.threw = r.threw,
                                !.count = call.count + 1]
  /\ UNCHANGED RunVars

\* something else removes a generated file before the first cleanup
EnvUnlink ==
  /\ call.handle # NoHandle
  /\ call.count = 0
  /\ \E q \in {call.handle.tempPath, call.handle.shimPath} \cap DOMAIN disk :
       disk' = UnlinkSync(disk, q).disk
  /\ UNCHANGED <<call, RunVars>>

NextUnit ==
  \/ CallIsFileArg
  \/ CallPickTool
  \/ CallBuild
  \/ CallCleanup
  \/ EnvUnlink

SpecUnit == InitUnit /\ [][NextUnit]_vars

\* ------------------------------------------------------------ a call of parseArgs
\* parseArgs called with an argument list, as the test suite calls it
ParseTokens == {TokA, TokPretty, OPT_TOOL, TSC, VUE_TSC, GLINT, TokToolEqGlint,
                TokToolEqTsc, TokToolEqVueTsc, TokToolEqBad, OPT_P, OPT_PROJECT,
                TokProjEq, TokProjEqTwo, TokCfg}

InitParse ==
  /\ argv \in SeqsUpTo(ParseTokens, MaxParse)
  /\ cwd \in {DirP, DirPS}
  /\ disk = Merge(SourcesOn(SourcePaths), Merge(DefaultManifest, DefaultConfig))
  /\ now = 1
  /\ pc = "main"
  /\ parsed = NoParsed
  /\ tool = TSC
  /\ loc = NoLoc
  /\ cleanupFn = NoHandle
  /\ configDir = cwd
  /\ finalArgs = << >>
  /\ handlers = FALSE
  /\ child = "none"
  /\ childCode = NoCode
  /\ sigReceived = "none"
  /\ exitCode = NoCode
  /\ exitVia = "none"
  /\ bin = NoBin
  /\ childErr = NoErr
  /\ diagnostic = NoDiag
  /\ call = NoCall
  /\ invocations = NoInvocations

\* parseArgs(argv): the record it returns, or the exit of validateToolValue
CallParseArgs ==
  /\ call = NoCall
  /\ \E p \in {parseArgs(argv, cwd, disk)} :
       /\ parsed' = p
       /\ call' = [NoCall EXCEPT !.op = "parseArgs",
                                 !.outcome = IF p.exit THEN "exit1" ELSE "ok"]
  /\ UNCHANGED <<argv, cwd, disk, now, pc, tool, loc, cleanupFn, configDir,
                 finalArgs, handlers, child, childCode, sigReceived, exitCode,
                 exitVia, bin, childErr, diagnostic, invocations>>

NextParse == CallParseArgs

SpecParse == InitParse /\ [][NextParse]_vars

\* ------------------------------------------------------------ a call of preferLocalBin
\* preferLocalBin(cmd, dir) called as main and the test suite call it, on
\* disks that vary the links in node_modules/.bin of /p and of /p/s and
\* the bin field of the packages installed in /p/node_modules
BinForms == {"absent", "garbage", "nobin", "string", "stringJs", "stringCjs",
             "stringMjs", "mapNamed", "mapFirst", "mapEmpty"}

Other == <<"other">>
BinPathOf(name, ext) == <<"bin", SLASH>> \o name \o ext

\* the manifest of the package that owns the command, with its bin field
\* in the given form
PkgManifest(cmd, form) ==
  CASE form = "garbage" -> GarbageFile
    [] form = "nobin" -> JsonFile(EmptyObj)
    [] form = "string" -> JsonFile([k \in {"bin"} |-> BinString(BinPathOf(cmd, << >>))])
    [] form = "stringJs" -> JsonFile([k \in {"bin"} |-> BinString(BinPathOf(cmd, <<DOT, "js">>))])
    [] form = "stringCjs" -> JsonFile([k \in {"bin"} |-> BinString(BinPathOf(cmd, <<DOT, "cjs">>))])
    [] form = "stringMjs" -> JsonFile([k \in {"bin"} |-> BinString(BinPathOf(cmd, <<DOT, "mjs">>))])
    [] form = "mapNamed" ->
         JsonFile([k \in {"bin"} |->
           BinMap(<<BinEntry(Other, BinPathOf(Other, <<DOT, "js">>)),
                    BinEntry(cmd, BinPathOf(cmd, << >>))>>)])
    [] form = "mapFirst" ->
         JsonFile([k \in {"bin"} |->
           BinMap(<<BinEntry(Other, BinPathOf(Other, <<DOT, "js">>)),
                    BinEntry(<<"more">>, BinPathOf(<<"more">>, << >>))>>)])
    [] OTHER -> JsonFile([k \in {"bin"} |-> BinMap(<< >>)])

PkgManifestPath(cmd) ==
  PathJoin(NodeModulesP, toolConfig(cmd).pkgName \o <<SLASH>> \o PACKAGE_JSON)

\* the three packages installed in /p/node_modules in the given form
PackagesIn(form) ==
  IF form = "absent" THEN NoFiles
  ELSE [q \in {PkgManifestPath(cmd) : cmd \in Tool} |->
          PkgManifest(Only({cmd \in Tool : PkgManifestPath(cmd) = q}), form)]

\* the links of the three commands in the node_modules/.bin of a directory
LinksIn(dir) ==
  [q \in {PathJoin(dir, LocalBinDir \o <<SLASH>> \o cmd) : cmd \in Tool} |-> BinFile]

BinDisks ==
  {Merge(Merge(DefaultManifest, PackagesIn(form)), Merge(l1, l2)) :
     form \in BinForms, l1 \in {NoFiles, LinksIn(DirP)},
     l2 \in {NoFiles, LinksIn(DirPS)}}

InitBin ==
  /\ argv = << >>
  /\ cwd \in {DirP, DirPS}
  /\ disk \in BinDisks
  /\ now = 1
  /\ pc = "main"
  /\ parsed = NoParsed
  /\ tool = TSC
  /\ loc = NoLoc
  /\ cleanupFn = NoHandle
  /\ configDir = cwd
  /\ finalArgs = << >>
  /\ handlers = FALSE
  /\ child = "none"
  /\ childCode = NoCode
  /\ sigReceived = "none"
  /\ exitCode = NoCode
  /\ exitVia = "none"
  /\ bin = NoBin
  /\ childErr = NoErr
  /\ diagnostic = NoDiag
  /\ call = NoCall
  /\ invocations = NoInvocations

\* preferLocalBin(cmd, dir): the second argument is passed and dropped
CallPreferLocalBin ==
  /\ call = NoCall
  /\ \E cmd \in Tool, dir \in {DirP, DirPS} :
       /\ tool' = cmd
       /\ bin' = preferLocalBin(cmd, cwd, disk)
       /\ call' = [NoCall EXCEPT !.op = "preferLocalBin", !.arg = dir,
                                 !.outcome = "ok"]
  /\ UNCHANGED <<argv, cwd, disk, now, pc, parsed, loc, cleanupFn, configDir,
                 finalArgs, handlers, child, childCode, sigReceived, exitCode,
                 exitVia, childErr, diagnostic, invocations>>

NextBin == CallPreferLocalBin

SpecBin == InitBin /\ [][NextBin]_vars

\* ------------------------------------------------------------ a call of findNearestPackageJson
\* findNearestPackageJson called with absolute and relative start
\* directories on disks with manifests in any of the directories /, /p,
\* /p/s, ... down to MaxDepth levels and in a directory beside them
SegAt(k) == IF k = 1 THEN <<"p">> ELSE IF k = 2 THEN <<"s">> ELSE <<"t", ToString(k)>>
DirAt(k) == AbsFromSegs([i \in 1..k |-> SegAt(i)])
DirQ == <<SLASH, "q">>
FindDirs == {DirAt(k) : k \in 0..MaxDepth} \cup {DirQ}

FindDisks ==
  {[q \in {PathJoin(dir, PACKAGE_JSON) : dir \in dirs} |-> JsonFile(EmptyObj)] :
     dirs \in SUBSET FindDirs}

StartDirs == FindDirs \cup {<<DOT>>, <<DOT, DOT>>, <<"n">>}

InitFind ==
  /\ argv = << >>
  /\ cwd \in {DirP, DirPS}
  /\ disk \in FindDisks
  /\ now = 1
  /\ pc = "main"
  /\ parsed = NoParsed
  /\ tool = TSC
  /\ loc = NoLoc
  /\ cleanupFn = NoHandle
  /\ configDir = cwd
  /\ finalArgs = << >>
  /\ handlers = FALSE
  /\ child = "none"
  /\ childCode = NoCode
  /\ sigReceived = "none"
  /\ exitCode = NoCode
  /\ exitVia = "none"
  /\ bin = NoBin
  /\ childErr = NoErr
  /\ diagnostic = NoDiag
  /\ call = NoCall
  /\ invocations = NoInvocations

\* findNearestPackageJson(startDir)
CallFindNearest ==
  /\ call = NoCall
  /\ \E startDir \in StartDirs :
       call' = [NoCall EXCEPT !.op = "findNearestPackageJson", !.arg = startDir,
                              !.ret = findNearestPackageJsonOf(startDir, cwd, disk),
                              !.outcome = "ok"]
  /\ UNCHANGED <<disk, RunVars>>

NextFind == CallFindNearest

SpecFind == InitFind /\ [][NextFind]_vars

\* ------------------------------------------------------------ two launchers at the same time
\* Two launchers started in the same directory, each with file arguments
\* and no project option, so each makes a derived configuration; their
\* steps interleave on one disk. Each is followed from its call of
\* buildTempTsconfig to the end of its child. now is the clock both read.
PairTokens == {TokA, TokB, TokC, TokX}

PairDisk == Merge(SourcesOn(SourcePaths), Merge(DefaultManifest, DefaultConfig))

\* the file arguments a launcher started in wd can have
PairFileArgs(wd) ==
  {fs \in SeqsUpTo(PairTokens, MaxFiles) :
     /\ fs # << >>
     /\ \A k \in 1..Len(fs) : isFileArg(fs[k], wd, PairDisk)}

\* a launcher at its call of buildTempTsconfig(fileArgs)
Invocation(fileArgs) ==
  [pc |-> "build", fileArgs |-> fileArgs, loc |-> NoLoc, timestamp |-> 0,
   cleanup |-> NoHandle, child |-> "none"]

InitPair ==
  /\ argv = << >>
  /\ cwd \in {DirP, DirPS}
  /\ disk = PairDisk
  /\ now = 1
  /\ pc = "main"
  /\ parsed = NoParsed
  /\ tool = TSC
  /\ loc = NoLoc
  /\ cleanupFn = NoHandle
  /\ configDir = cwd
  /\ finalArgs = << >>
  /\ handlers = FALSE
  /\ child = "none"
  /\ childCode = NoCode
  /\ sigReceived = "none"
  /\ exitCode = NoCode
  /\ exitVia = "none"
  /\ bin = NoBin
  /\ childErr = NoErr
  /\ diagnostic = NoDiag
  /\ call = NoCall
  /\ invocations \in [1..2 -> {Invocation(fs) : fs \in PairFileArgs(cwd)}]

PairFrame == <<argv, cwd, pc, parsed, tool, loc, cleanupFn, configDir,
               finalArgs, handlers, child, childCode, sigReceived, exitCode,
               exitVia, bin, childErr, diagnostic, call>>

\* buildTempTsconfig of launcher i from its start to the write of the shim
\* file: the configuration is located, Date.now() is read
PairBuildShim(i) ==
  /\ invocations[i].pc = "build"
  /\ \E l \in {BuildLocate(cwd, disk)} :
       /\ l.outcome = "ok"
       /\ disk' = BuildWriteShim(disk, l.configDir)
       /\ invocations' = [invocations EXCEPT ![i].loc = l,
                                             ![i].timestamp = now,
                                             ![i].pc = "temp"]
  /\ UNCHANGED <<now, PairFrame>>

\* buildTempTsconfig of launcher i: the derived configuration is written
PairBuildTemp(i) ==
  /\ invocations[i].pc = "temp"
  /\ \E v \in {invocations[i]} :
       disk' = BuildWriteTemp(disk, v.loc, FileList(v.fileArgs), cwd, v.timestamp)
  /\ invocations' = [invocations EXCEPT ![i].pc = "launch"]
  /\ UNCHANGED <<now, PairFrame>>

\* main of launcher i from the return of buildTempTsconfig to the spawn
PairLaunch(i) ==
  /\ invocations[i].pc = "launch"
  /\ \E v \in {invocations[i]} :
       invocations' = [invocations EXCEPT
                         ![i].cleanup = TempTsconfig(v.loc, v.timestamp),
                         ![i].child = "running",
                         ![i].pc = "wait"]
  /\ UNCHANGED <<disk, now, PairFrame>>

\* child.on('exit') of launcher i: the exit helper runs its cleanup
PairChildExit(i) ==
  /\ invocations[i].pc = "wait"
  /\ disk' = cleanup(disk, invocations[i].cleanup).disk
  /\ invocations' = [invocations EXCEPT ![i].child = "exited", ![i].pc = "done"]
  /\ UNCHANGED <<now, PairFrame>>

\* a millisecond passes
Tick ==
  /\ now < MaxTime
  /\ now' = now + 1
  /\ UNCHANGED <<disk, invocations, PairFrame>>

NextPair ==
  \/ \E i \in DOMAIN invocations : PairBuildShim(i)
  \/ \E i \in DOMAIN invocations : PairBuildTemp(i)
  \/ \E i \in DOMAIN invocations : PairLaunch(i)
  \/ \E i \in DOMAIN invocations : PairChildExit(i)
  \/ Tick

SpecPair == InitPair /\ [][NextPair]_vars

\* ------------------------------------------------------------ properties of a run
\* a path whose last segment is a name buildTempTsconfig generates
IsGenerated(q) ==
  \E i \in 1..(Len(q) - 4) :
    /\ q[i] = SLASH
    /\ SubSeq(q, i + 1, i + 4) = <<"tsconfig", DOT, "tsc-runner", DOT>>
    /\ \A j \in (i + 5)..Len(q) : q[j] # SLASH

GeneratedOnDisk == {q \in DOMAIN disk : IsGenerated(q)}

\* C1: when a run that created a derived configuration ends on the child's
\* exit or on a spawn error, the cleanup has run: neither the derived
\* configuration nor the shim file is on disk at termination
C1_CleanupOnChildEnd ==
  (pc = "done" /\ exitVia \in {"childExit", "spawnError"}) => GeneratedOnDisk = {}

\* a run with a derived configuration has ended on the child's exit
C1_Witness ==
  /\ pc = "done"
  /\ exitVia = "childExit"
  /\ loc.outcome = "ok"
  /\ cleanupFn # NoHandle
  /\ GeneratedOnDisk = {}

\* C2: a SIGINT or SIGTERM delivered after the shim or the derived
\* configuration was written ends the process with status 130 or 143 and
\* leaves no generated file on disk
C2_SignalAlwaysCleans ==
  (pc = "done" /\ sigReceived # "none" /\ loc.outcome = "ok") =>
    /\ exitCode = SignalStatus(sigReceived)
    /\ GeneratedOnDisk = {}

\* C3: on the child's exit the launcher exits with the child's code, and
\* with 1 when the code is null
C3_ExitCodePropagated ==
  (pc = "done" /\ exitVia = "childExit") =>
    exitCode = (IF childCode = NoCode THEN 1 ELSE childCode)

\* the child ended with a null code and the launcher exited with 1
C3_Witness ==
  /\ pc = "done"
  /\ exitVia = "childExit"
  /\ childCode = NoCode
  /\ exitCode = 1

C17_SpawnFailureDiagnostic ==
  (pc = "done" /\ exitVia = "spawnError") =>
    /\ childErr \in SpawnErrors
    /\ diagnostic =
         (IF childErr.code = "ENOENT"
          THEN [msg |-> MSG_NOT_INSTALLED,
                detail |-> CASE tool = <<"tsc">> -> <<"typescript">>
                             [] tool = <<"vue-tsc">> -> <<"vue-tsc">>
                             [] tool = <<"glint">> -> <<"@glint", "/", "core">>]
          ELSE [msg |-> MSG_START_FAILED, detail |-> childErr.message])
    /\ GeneratedOnDisk = {}
    /\ exitCode = 1

\* glint was not found when a derived configuration was on disk
C17_Witness ==
  /\ pc = "done"
  /\ exitVia = "spawnError"
  /\ childErr.code = ENOENT
  /\ tool = GLINT
  /\ bin = CommandConfig(GLINT, << >>)
  /\ cleanupFn # NoHandle
  /\ diagnostic.detail = PKG_GLINT
  /\ GeneratedOnDisk = {}
  /\ exitCode = 1

\* the tokens of argv with the given extension that name an existing file
ExistingWithExt(ext) ==
  {k \in 1..Len(argv) : /\ EndsWith(argv[k], ext)
                        /\ PathResolve(cwd, argv[k]) \in DOMAIN disk}

\* the run has chosen its tool from the files and the manifest: no usage
\* error, a manifest found, no --tool flag
ToolDetected ==
  /\ pc # "main"
  /\ exitVia \notin {"usage", "noManifest", "killed"}
  /\ \A k \in 1..Len(argv) : argv[k] # OPT_TOOL /\ ~StartsWith(argv[k], OPT_TOOL_EQ)

\* C18: an existing .gjs file on the command line selects glint as an
\* existing .gts file does, whatever the manifest declares, when no .vue
\* file is given
C18_GjsSelectsGlint ==
  (ToolDetected /\ ExistingWithExt(<<".", "vue">>) = {}) =>
    /\ ExistingWithExt(<<".", "gts">>) # {} => tool = <<"glint">>
    /\ ExistingWithExt(<<".", "gjs">>) # {} => tool = <<"glint">>

\* ------------------------------------------------------------ properties of the direct calls
Range(list) == {list[i] : i \in 1..Len(list)}

\* the names the manifest declares as dependencies or devDependencies
ManifestDepNames ==
  IF PkgPath \in DOMAIN disk /\ disk[PkgPath].kind = "json"
  THEN DOMAIN disk[PkgPath].val["dependencies"] \cup
       DOMAIN disk[PkgPath].val["devDependencies"]
  ELSE {}

\* C4: pickTool follows the precedence override, .vue file, .gts/.gjs file,
\* @glint/core dependency, vue-tsc or vue dependency, tsc, whatever the
\* order of the file arguments
C4_PickToolPrecedence ==
  call.op = "pickTool" =>
    LET exts == {PathExtname(f) : f \in Range(call.files.list)}
    IN call.ret =
         (IF call.override # Undefined THEN call.override
          ELSE IF <<".", "vue">> \in exts THEN <<"vue-tsc">>
          ELSE IF <<".", "gts">> \in exts \/ <<".", "gjs">> \in exts THEN <<"glint">>
          ELSE IF "@glint/core" \in ManifestDepNames THEN <<"glint">>
          ELSE IF "vue-tsc" \in ManifestDepNames \/ "vue" \in ManifestDepNames
               THEN <<"vue-tsc">>
          ELSE <<"tsc">>)

\* a .gts file listed before a .vue file, a manifest with @glint/core, no
\* override: vue-tsc
C4_Witness ==
  /\ call.op = "pickTool"
  /\ call.files.list = <<TokC, TokB>>
  /\ call.override = Undefined
  /\ "@glint/core" \in ManifestDepNames
  /\ call.ret = VUE_TSC

Built ==
  /\ call.op = "build"
  /\ call.outcome = "ok"
  /\ call.handle.tempPath \in DOMAIN disk

\* the derived configuration as read back from disk
Derived == disk[call.handle.tempPath].val

\* the real configuration
Original == disk[PathJoin(call.handle.configDir, TSCONFIG_JSON)].val

OriginalOptions ==
  IF "compilerOptions" \in DOMAIN Original THEN Original["compilerOptions"]
  ELSE EmptyObj

\* C6: the derived compilerOptions read back from disk have noEmit true,
\* composite and incremental false and no outDir, rootDir, tsBuildInfoFile
C6_ForcedOptions ==
  Built =>
    /\ "compilerOptions" \in DOMAIN Derived
    /\ LET co == Derived["compilerOptions"]
       IN /\ {"noEmit", "composite", "incremental"} \subseteq DOMAIN co
          /\ co["noEmit"] = <<"true">>
          /\ co["composite"] = <<"false">>
          /\ co["incremental"] = <<"false">>
          /\ DOMAIN co \cap {"outDir", "rootDir", "tsBuildInfoFile"} = {}

\* the real configuration set all six options the other way
C6_Witness ==
  /\ Built
  /\ OriginalOptions = FullOptions
  /\ DOMAIN Derived["compilerOptions"] =
       {"target", "strict", "noEmit", "composite", "incremental"}

\* C7: for a non-empty file list the derived files are the requested files
\* in order, each resolved against the working directory and made relative
\* to the configuration directory, then the shim; no include, no exclude
C7_FilesExact ==
  (Built /\ ~call.files.isNull /\ call.files.list # << >>) =>
    /\ "files" \in DOMAIN Derived
    /\ LET out == Derived["files"]
           req == call.files.list
       IN /\ Len(out) = Len(req) + 1
          /\ out[Len(out)] = SHIM_NAME
          /\ \A i \in 1..Len(req) :
               /\ ~IsAbsolute(out[i])
               /\ PathResolve(call.handle.configDir, out[i]) = PathResolve(cwd, req[i])
               /\ LET segs == Segments(out[i])
                  IN \A j \in 1..Len(segs) :
                       /\ segs[j] # <<".">>
                       /\ segs[j] = <<".", ".">> =>
                            \A m \in 1..j : segs[m] = <<".", ".">>
    /\ "include" \notin DOMAIN Derived
    /\ "exclude" \notin DOMAIN Derived

\* a relative and an absolute file requested from a subdirectory of the
\* configuration directory, the real configuration having include/exclude
C7_Witness ==
  /\ Built
  /\ cwd = DirPS
  /\ call.files.list = <<TokUpA, TokC>>
  /\ {"include", "exclude"} \subseteq DOMAIN Original
  /\ Derived["files"] = <<<<"a", ".", "ts">>, <<"s", "/", "c", ".", "gts">>, SHIM_NAME>>

\* C8: every top-level key other than compilerOptions, files, include and
\* exclude, and every compiler option other than the six forced ones, is in
\* the derived configuration with the value of the real configuration
C8_OthersInherited ==
  Built =>
    /\ \A k \in DOMAIN Original \ {"compilerOptions", "files", "include", "exclude"} :
         k \in DOMAIN Derived /\ Derived[k] = Original[k]
    /\ \A o \in DOMAIN OriginalOptions \ {"noEmit", "outDir", "rootDir", "composite",
                                          "incremental", "tsBuildInfoFile"} :
         /\ o \in DOMAIN Derived["compilerOptions"]
         /\ Derived["compilerOptions"][o] = OriginalOptions[o]

\* files were requested and the real configuration has extends, references
\* and a target
C8_Witness ==
  /\ Built
  /\ call.files.list # << >>
  /\ {"extends", "references"} \subseteq DOMAIN Original
  /\ "target" \in DOMAIN OriginalOptions
  /\ Derived["extends"] = Original["extends"]
  /\ Derived["compilerOptions"]["target"] = OptTarget

\* the derived configuration has the key exactly when the real one has it,
\* with the same value
SameKey(k) ==
  /\ k \in DOMAIN Derived <=> k \in DOMAIN Original
  /\ k \in DOMAIN Original => Derived[k] = Original[k]

NoFilesRequested == call.files.isNull \/ call.files.list = << >>

\* C9 as stated: with no files requested the derived configuration has no
\* files key and keeps the original include and exclude
C9_NoFilesKey ==
  (Built /\ NoFilesRequested) =>
    /\ "files" \notin DOMAIN Derived
    /\ SameKey("include")
    /\ SameKey("exclude")

\* C9 amended: with no files requested the derived configuration keeps the
\* files, include and exclude keys of the real configuration unchanged; it
\* has no files key exactly when the real configuration has none
C9_NoFilesOverride ==
  (Built /\ NoFilesRequested) =>
    /\ SameKey("files")
    /\ SameKey("include")
    /\ SameKey("exclude")

\* an empty list requested, the real configuration having files and include
C9_Witness ==
  /\ Built
  /\ ~call.files.isNull
  /\ call.files.list = << >>
  /\ {"files", "include"} \subseteq DOMAIN Original
  /\ Derived["files"] = Original["files"]

\* C10: a call of the cleanup never throws and leaves neither generated
\* file on disk; it removes nothing else, and a second or later call
\* changes nothing
C10_CleanupIdempotent ==
  [][(call'.op = "cleanup" /\ call'.count = call.count + 1) =>
       /\ ~call'.threw
       /\ call.handle.tempPath \notin DOMAIN disk'
       /\ call.handle.shimPath \notin DOMAIN disk'
       /\ disk' = [q \in DOMAIN disk \ {call.handle.tempPath, call.handle.shimPath}
                     |-> disk[q]]
       /\ call.count >= 1 => disk' = disk]_vars

\* the cleanup was called a second time and did not throw
C10_Witness ==
  /\ call.op = "cleanup"
  /\ call.count = 2
  /\ ~call.threw
  /\ call.handle.tempPath \notin DOMAIN disk
  /\ call.handle.shimPath \notin DOMAIN disk

\* the call was made from the root of a monorepo: no tsconfig.json there,
\* one in the sub-project, every requested file inside the sub-project
FromMonorepoRoot ==
  /\ call.op = "build"
  /\ cwd = DirP
  /\ CfgPath \notin DOMAIN disk
  /\ SubCfgPath \in DOMAIN disk
  /\ ~call.files.isNull
  /\ call.files.list # << >>
  /\ \A f \in Range(call.files.list) :
       StartsWith(PathResolve(cwd, f), DirPS \o <<SLASH>>)

\* C11: called from a monorepo root with a relative or an absolute path of
\* a file of a sub-project, buildTempTsconfig finds the tsconfig.json of
\* the sub-project: configDir is the sub-project directory, the derived
\* configuration is written there and lists the file relative to it
C11_ConfigFromFileLocation ==
  FromMonorepoRoot =>
    /\ call.outcome = "ok"
    /\ call.handle.configDir = DirPS
    /\ call.handle.tempPath \in DOMAIN disk
    /\ PathDirname(call.handle.tempPath) = DirPS
    /\ Derived["files"] =
         [i \in 1..Len(call.files.list) |->
            PathRelative(DirPS, PathResolve(cwd, call.files.list[i]))]
         \o <<SHIM_NAME>>

\* ------------------------------------------------------------ properties of parseArgs
\* parseArgs returned
Parsed == call.op = "parseArgs" /\ call.outcome = "ok"

\* the tokens of argv that are not file arguments, in order
Remaining == SelectSeq(argv, LAMBDA a : ~isFileArg(a, cwd, disk))

IsToolEq(a) == \E v \in Tool : a = OPT_TOOL_EQ \o v
IsToolFlag(a) == a = OPT_TOOL \/ StartsWith(a, OPT_TOOL_EQ)

\* the indices of the tool flags in a list of tokens
ToolFlagsIn(rest) == {i \in 1..Len(rest) : IsToolFlag(rest[i])}

\* the indices of the tool flags among the remaining tokens
ToolFlagsAt == ToolFlagsIn(Remaining)

\* C13: a tool override given once, as --tool=<v> or as --tool <v> with v a
\* tool name, makes toolOverride equal v; the flag token, and in the space
\* form its value token, are removed from passthrough and every other
\* pass-through token is kept in place
C13_ToolOverrideForms ==
  (Parsed /\ Cardinality(ToolFlagsAt) = 1) =>
    LET i == Only(ToolFlagsAt)
        rest == Remaining
    IN /\ IsToolEq(rest[i]) =>
            /\ OPT_TOOL_EQ \o parsed.toolOverride = rest[i]
            /\ parsed.passthrough = SubSeq(rest, 1, i - 1) \o SubSeq(rest, i + 1, Len(rest))
       /\ (rest[i] = OPT_TOOL /\ i < Len(rest) /\ rest[i + 1] \in Tool) =>
            /\ parsed.toolOverride = rest[i + 1]
            /\ parsed.passthrough = SubSeq(rest, 1, i - 1) \o SubSeq(rest, i + 2, Len(rest))

\* --tool vue-tsc between two other pass-through tokens
C13_Witness ==
  /\ Parsed
  /\ argv = <<TokPretty, OPT_TOOL, VUE_TSC>>
  /\ parsed.toolOverride = VUE_TSC
  /\ parsed.passthrough = <<TokPretty>>

IsProjectFlag(a) ==
  a = OPT_PROJECT \/ a = OPT_P \/ StartsWith(a, OPT_PROJECT_EQ)

\* the text of a token after a prefix of it
TextAfter(a, prefix) == SubSeq(a, Len(prefix) + 1, Len(a))

\* C14: explicitProject is the value of the first project flag among the
\* non-file tokens: the next token for --project or -p, the text after =
\* for --project=<v>, null when there is no project flag or no next token;
\* the project flag and its value remain in passthrough
C14_ExplicitProjectValue ==
  Parsed =>
    LET rest == Remaining
        i == FindIndex({k \in 1..Len(rest) : IsProjectFlag(rest[k])})
        pass == parsed.passthrough
    IN IF i = 0 THEN parsed.explicitProject = Null
       ELSE IF StartsWith(rest[i], OPT_PROJECT_EQ)
       THEN /\ parsed.explicitProject = TextAfter(rest[i], OPT_PROJECT_EQ)
            /\ \E j \in 1..Len(pass) : pass[j] = rest[i]
       ELSE IF i = Len(rest) THEN parsed.explicitProject = Null
       ELSE /\ parsed.explicitProject = rest[i + 1]
            /\ \E j \in 1..Len(pass) - 1 :
                 pass[j] = rest[i] /\ pass[j + 1] = rest[i + 1]

\* a list without its element at index i; the list itself when i is 0
Without(list, i) ==
  IF i = 0 THEN list ELSE SubSeq(list, 1, i - 1) \o SubSeq(list, i + 1, Len(list))

\* a list without its first --tool=<v> token and then without its first
\* --tool token and the token after it
WithoutToolFlag(list) ==
  LET r1 == Without(list, FindIndex({k \in 1..Len(list) :
                                       StartsWith(list[k], OPT_TOOL_EQ)}))
      t == FindIndex({k \in 1..Len(r1) : r1[k] = OPT_TOOL})
  IN IF t = 0 THEN r1 ELSE Without(Without(r1, t), t)

\* C15: fileArgs is the tokens of argv that satisfy isFileArg and
\* passthrough is the other tokens without the tool flag and its value,
\* both in the order of argv and verbatim; no token is in both
C15_Partition ==
  Parsed =>
    /\ parsed.fileArgs = SelectSeq(argv, LAMBDA a : isFileArg(a, cwd, disk))
    /\ parsed.passthrough = WithoutToolFlag(Remaining)
    /\ Range(parsed.fileArgs) \cap Range(parsed.passthrough) = {}

\* a file, a tool flag and another token: one of each kind
C15_Witness ==
  /\ Parsed
  /\ cwd = DirP
  /\ argv = <<TokA, TokToolEqGlint, TokPretty>>
  /\ parsed.fileArgs = <<TokA>>
  /\ parsed.passthrough = <<TokPretty>>

\* ------------------------------------------------------------ fatal errors of a run
\* a directory and its ancestors up to the root
AncestorsOrSelf(dir) ==
  {AbsFromSegs(SubSeq(Segments(dir), 1, k)) : k \in 0..Len(Segments(dir))}

\* the files of the given name in the working directory and its ancestors
Upwards(name) ==
  {PathJoin(dir, name) : dir \in AncestorsOrSelf(cwd)} \cap DOMAIN disk

\* the one tool flag among the non-file tokens has an invalid value or none
BadToolValueIn(rest) ==
  \E flags \in {ToolFlagsIn(rest)} :
    /\ Cardinality(flags) = 1
    /\ \E i \in flags :
         IF rest[i] = OPT_TOOL
         THEN i = Len(rest) \/ rest[i + 1] \notin Tool
         ELSE TextAfter(rest[i], OPT_TOOL_EQ) \notin Tool

BadToolValue == BadToolValueIn(Remaining)

\* argv asks for a derived configuration: a file argument, no project flag
WantsDerivedIn(rest) ==
  /\ Len(rest) < Len(argv)
  /\ \A k \in 1..Len(rest) : ~IsProjectFlag(rest[k])

WantsDerived == WantsDerivedIn(Remaining)

\* the deepest of a set of paths
Deepest(paths) == CHOOSE q \in paths : \A r \in paths : Len(r) <= Len(q)

\* no tsconfig.json in the working directory or above, or an unreadable
\* nearest one
NoUsableConfig ==
  \E configs \in {Upwards(TSCONFIG_JSON)} :
    configs = {} \/ disk[Deepest(configs)].kind # "json"

\* the input of the run has one of the fatal errors found before a derived
\* configuration exists
FatalInput ==
  \E rest \in {Remaining} :
    \/ BadToolValueIn(rest)
    \/ Upwards(PACKAGE_JSON) = {}
    \/ WantsDerivedIn(rest) /\ NoUsableConfig

\* C16: a run whose input has an invalid or missing tool value, no
\* package.json up to the root, no tsconfig.json or an unreadable one never
\* writes a shim or a derived configuration and never spawns a child, and
\* when it ends by itself its exit status is 1
C16_FatalErrorsExitOne ==
  \/ /\ child = "none"
     /\ cleanupFn = NoHandle
     /\ pc \notin {"temp", "launch", "wait"}
     /\ (pc = "done" /\ sigReceived = "none") => exitCode = 1
     /\ GeneratedOnDisk = {}
  \/ ~FatalInput

\* a run with a file argument and an unreadable tsconfig.json has ended
C16_Witness ==
  /\ pc = "done"
  /\ sigReceived = "none"
  /\ parsed.fileArgs # << >>
  /\ CfgPath \in DOMAIN disk
  /\ disk[CfgPath].kind = "garbage"
  /\ exitVia = "configError"
  /\ exitCode = 1
  /\ GeneratedOnDisk = {}

\* ------------------------------------------------------------ properties of preferLocalBin
\* the bin entry the manifest of the tool's package declares: its single
\* path, else the entry of the exact command name, else its first entry;
\* null when the manifest is missing, unreadable or declares none
DeclaredBin ==
  LET q == PkgManifestPath(tool)
      root == PathDirname(q)
  IN IF q \notin DOMAIN disk \/ disk[q].kind # "json" THEN Null
     ELSE IF "bin" \notin DOMAIN disk[q].val THEN Null
     ELSE LET b == disk[q].val["bin"]
              exact == {k \in 1..Len(b.entries) : b.entries[k].name = tool}
          IN IF b.form = "string" THEN PathResolve(root, b.path)
             ELSE IF exact # {} THEN PathResolve(root, b.entries[Only(exact)].path)
             ELSE IF b.entries # << >> THEN PathResolve(root, b.entries[1].path)
             ELSE Null

\* C19: preferLocalBin(tool, dir) returns the executable of the tool in
\* dir/node_modules/.bin when it exists; else the declared bin entry of the
\* tool's package, behind the Node executable when it is a .js, .cjs or
\* .mjs script; else the bare command name; it always returns
C19_PreferLocalBinOrder ==
  call.op = "preferLocalBin" =>
    LET local == PathJoin(call.arg, <<"node_modules", "/", ".", "bin", "/">> \o tool)
        declared == DeclaredBin
    IN /\ call.outcome = "ok"
       /\ bin =
            (IF local \in DOMAIN disk THEN [command |-> local, args |-> << >>]
             ELSE IF declared = Null THEN [command |-> tool, args |-> << >>]
             ELSE IF PathExtname(declared) \in
                       {<<".", "js">>, <<".", "cjs">>, <<".", "mjs">>}
                  THEN [command |-> execPath, args |-> <<declared>>]
             ELSE [command |-> declared, args |-> << >>])

\* ------------------------------------------------------------ properties of findNearestPackageJson
\* the start directory of the call and its ancestors that hold a package.json
HoldersAbove ==
  {dir \in AncestorsOrSelf(PathResolve(cwd, call.arg)) :
     PathJoin(dir, PACKAGE_JSON) \in DOMAIN disk}

\* C20: findNearestPackageJson returns for every start directory: the
\* package.json of the deepest directory among the start directory and its
\* ancestors that holds one, null when none up to the root holds one
C20_NearestManifest ==
  call.op = "findNearestPackageJson" =>
    /\ call.outcome = "ok"
    /\ IF HoldersAbove = {} THEN call.ret = Null
       ELSE \E dir \in HoldersAbove :
              /\ \A other \in HoldersAbove : Len(other) <= Len(dir)
              /\ call.ret = PathJoin(dir, PACKAGE_JSON)

\* a start directory without a manifest, one in its parent and one in the root
C20_Witness ==
  /\ call.op = "findNearestPackageJson"
  /\ call.arg = DirPS
  /\ PathJoin(DirPS, PACKAGE_JSON) \notin DOMAIN disk
  /\ {PkgPath, <<SLASH>> \o PACKAGE_JSON} \subseteq DOMAIN disk
  /\ call.ret = PkgPath

\* ------------------------------------------------------------ where a run writes and starts the child
\* the directory of the real configuration: the nearest tsconfig.json in
\* the working directory or above
RealConfigDir == PathDirname(Deepest(Upwards(TSCONFIG_JSON)))

\* the run makes a derived configuration: buildTempTsconfig has returned
UsesDerived == cleanupFn # NoHandle

\* C22: every file the run has generated lies in the directory of the real
\* configuration found from the working directory; a child started by a
\* run with a derived configuration has that directory as its working
\* directory, and a child started with neither a derived configuration nor
\* an explicit project has the launcher's working directory
C22_ConfigDirectory ==
  /\ \A q \in GeneratedOnDisk : PathDirname(q) = RealConfigDir
  /\ (child # "none" /\ UsesDerived) => configDir = RealConfigDir
  /\ (child # "none" /\ ~UsesDerived /\ ~IsSet(parsed.explicitProject)) =>
       configDir = cwd

\* started in /p/s with the real configuration in /p: both generated files
\* are in /p and the child runs there
C22_Witness ==
  /\ cwd = DirPS
  /\ child = "running"
  /\ UsesDerived
  /\ configDir = DirP
  /\ GeneratedOnDisk = {ShimPath(DirP), TempPath(DirP, now)}

\* ------------------------------------------------------------ fatal errors after a file is written
\* C23: a run that ends by itself, on a fatal error or on the end of the
\* child, with no signal delivered, has run the cleanup when it had
\* written a temporary file: no generated file is on disk at its end
C23_FatalAfterWriteCleans ==
  (pc = "done" /\ sigReceived = "none") => GeneratedOnDisk = {}

\* ------------------------------------------------------------ the arguments of the child
\* the project flag of a tool
ProjectFlagOf(t) == IF t = GLINT THEN OPT_PROJECT ELSE OPT_P

\* the positions of the project flags in a list of arguments
ProjectFlagsAt(list) == {k \in 1..Len(list) : IsProjectFlag(list[k])}

\* C24: the child of a run with a derived configuration is started with the
\* resolver's argument prefix, the project flag of the tool, the path of
\* the derived configuration and the pass-through tokens in order, and the
\* only project flag in that list is the one before the derived
\* configuration
C24_DerivedArguments ==
  (child # "none" /\ UsesDerived) =>
    /\ cmdArgs = bin.args \o <<ProjectFlagOf(tool), cleanupFn.tempPath>>
                          \o parsed.passthrough
    /\ ProjectFlagsAt(cmdArgs) = {Len(bin.args) + 1}

\* ------------------------------------------------------------ a run with no file argument
\* a generated file on disk is a derived configuration for the whole
\* project: it has the include and exclude of the real configuration c, no
\* files list of its own, and noEmit true and incremental false
FullProjectDerived(q, c) ==
  /\ disk[q].kind = "json"
  /\ \A k \in {"files", "include", "exclude"} :
       /\ k \in DOMAIN disk[q].val <=> k \in DOMAIN c
       /\ k \in DOMAIN c => disk[q].val[k] = c[k]
  /\ "compilerOptions" \in DOMAIN disk[q].val
  /\ \E o \in {disk[q].val["compilerOptions"]} :
       /\ "noEmit" \in DOMAIN o /\ o["noEmit"] = JTrue
       /\ "incremental" \in DOMAIN o /\ o["incremental"] = JFalse

\* C25: while the child of a run with no file argument and no explicit
\* project is running, a derived configuration of the whole project is on
\* disk and the child was given its path
C25_NoFilesStillDerived ==
  (child = "running" /\ parsed.fileArgs = << >> /\ ~IsSet(parsed.explicitProject)
     /\ Upwards(TSCONFIG_JSON) # {}) =>
    \E q \in GeneratedOnDisk :
      /\ Includes(cmdArgs, q)
      /\ FullProjectDerived(q, disk[Deepest(Upwards(TSCONFIG_JSON))].val)

\* ------------------------------------------------------------ what a run changes on disk
\* C26: a step of a run creates, changes or removes no file other than the
\* shim file and the derived configuration, known by their names, in the
\* located configuration directory; every other file (the real configuration, the manifest, the
\* sources, the installed packages) is the same before and after the step
C26_OnlyGeneratedTouched ==
  [][disk' # disk =>
       \A q \in DOMAIN disk \cup DOMAIN disk' :
         \/ q \in DOMAIN disk /\ q \in DOMAIN disk' /\ disk'[q] = disk[q]
         \/ /\ loc'.outcome = "ok"
            /\ IsGenerated(q)
            /\ PathDirname(q) = loc'.configDir]_vars

\* a run has written both files beside the real configuration and removed
\* them on a signal; the real configuration, the manifest and the source
\* are as they were
C26_Witness ==
  /\ pc = "done"
  /\ exitVia = "listener"
  /\ UsesDerived
  /\ argv = <<TokA>>
  /\ GeneratedOnDisk = {}
  /\ disk[CfgPath] = JsonFile(FullConfig)
  /\ disk[PkgPath] = Manifest({DEP_VUE}, {})
  /\ disk[FileA] = SourceFile

\* ------------------------------------------------------------ the child of a run
\* how the launcher can end before the launch step on a fatal error
FatalBeforeLaunch == {"usage", "noManifest", "noConfig", "configError", "writeError"}

\* C27 as stated: a run past the launch step has a child, and a run that
\* ended with no child ended on a fatal error before the launch step
C27_OneChildOrFatal ==
  /\ pc = "wait" => child # "none"
  /\ (pc = "done" /\ child = "none") => exitVia \in FatalBeforeLaunch

\* C27: the launch step starts the child and it is the only step that
\* starts one; a started child is never started again, after a spawn error
\* or a signal either; a run past the launch step has a child, and a run
\* that ended with no child ended before the launch step, on a fatal error
\* or killed by a signal for which no listener was registered yet
C27_OneChild ==
  /\ [][child' # child =>
          \/ child = "none" /\ pc = "launch" /\ child' \in {"running", "failed"}
          \/ child = "running" /\ child' = "exited"]_vars
  /\ [](pc = "wait" => child # "none")
  /\ []((pc = "done" /\ child = "none") =>
          \/ exitVia \in FatalBeforeLaunch
          \/ exitVia = "killed" /\ ~handlers)

\* a spawn error was reported and the run ended with the one failed child
C27_Witness ==
  /\ pc = "done"
  /\ exitVia = "spawnError"
  /\ child = "failed"
  /\ handlers

C29_SignalLeavesChild ==
  [][(handlers /\ sigReceived' # sigReceived) =>
       /\ pc' = "done"
       /\ exitCode' = SignalStatus(sigReceived')
       /\ {q \in DOMAIN disk' : IsGenerated(q)} = {}
       /\ child' = child
       /\ childCode' = childCode]_vars

\* the launcher has ended on SIGTERM with the files of its derived
\* configuration removed while its child is still running
C29_Witness ==
  /\ pc = "done"
  /\ exitVia = "listener"
  /\ sigReceived = SIGTERM
  /\ exitCode = 143
  /\ UsesDerived
  /\ Includes(cmdArgs, cleanupFn.tempPath)
  /\ child = "running"
  /\ childCode = NoCode
  /\ cleanupFn.tempPath \notin DOMAIN disk
  /\ cleanupFn.shimPath \notin DOMAIN disk

\* ------------------------------------------------------------ properties of two launchers
\* the derived configuration launcher i wrote for its child
OwnDerived(i) ==
  Only({JsonFile(JSONStringify(
          createTempConfig(v.loc.config, FileList(v.fileArgs), v.loc.configDir,
                           ShimPath(v.loc.configDir), cwd))) :
        v \in {invocations[i]}})

\* C21: while the child of a launcher runs, the derived configuration the
\* child was given is on disk as that launcher wrote it, and the shim file
\* the configuration lists is on disk: no step of the other launcher has
\* replaced or removed them
C21_InvocationsIsolated ==
  \A i \in DOMAIN invocations :
    invocations[i].child = "running" =>
      /\ invocations[i].cleanup.tempPath \in DOMAIN disk
      /\ disk[invocations[i].cleanup.tempPath] = OwnDerived(i)
      /\ invocations[i].cleanup.shimPath \in DOMAIN disk

====
